---- MODULE Spec2Model ----
(***************************************************************************)
(* Piano recorder of DaylightStation.                                      *)
(*                                                                         *)
(*   AutoMIDIRecorder          _extentions/piano/recorder/                 *)
(*                             auto_midi_recorder.py                       *)
(*   MidiWebSocketBroadcaster  _extensions/piano/recorder/                 *)
(*                             midi_ws_broadcaster.py                      *)
(*                                                                         *)
(* The recorder runs on the main thread (start_recording) and on one       *)
(* threading.Timer thread per armed inactivity timer; they meet on         *)
(* session_lock.  The broadcaster runs producers (any thread calling       *)
(* broadcast), the caller of start/stop, and the worker thread with its    *)
(* asyncio loop (drain, heartbeat and receive duties).                     *)
(*                                                                         *)
(* One tick of the clock `now` is one second: the resolution of the        *)
(* session id (strftime "%Y-%m-%d %H.%M.%S").                              *)
(***************************************************************************)
EXTENDS Integers, Sequences, FiniteSets, TLC

\* ---------------------------------------------------------------- bounds
MaxEvents == 3          \* MIDI messages delivered by the input port
MaxTime == 5            \* last instant of the clock
MaxSilence == 2         \* largest silence_timeout tried (seconds)
MaxFaults == 1          \* file operations that fail in one run
MaxInstant == 70        \* last instant a stepped clock shows (SpecDelta)
MaxDuration == 31       \* longest session duration tried, seconds (SpecEnd)
MaxMsgs == 3            \* calls of broadcast in one run
MaxQueueSize == 2       \* largest max_queue_size tried
MaxWorkers == 1         \* worker threads alive at once (SpecBc, SpecBackoff)
MaxOverlap == 2         \* worker threads alive at once (SpecLife)
MaxHeartbeats == 1      \* pings sent, and pongs received, in one run
MaxStreak == 6          \* consecutive failures counted (the count saturates)

\* ------------------------------------------------------ program constants
TicksPerSecond == 960   \* 480 ticks per beat at 120 BPM
MaxDeltaTicks == 65535  \* cap of a MIDI delta time
DEFAULT_RECONNECT_BASE == 5
DEFAULT_RECONNECT_MAX == 60
MaxBatch == 50          \* max_batch of _send_queued_messages
MIN_SESSION_DURATION_SECONDS == 30

VARIABLES
    \* ---- AutoMIDIRecorder fields
    silence_timeout,    \* seconds of silence that end a session
    current_session,    \* 0 = None, else the session id (start second)
    session_messages,   \* <<[ev, time]>>: the open session's messages
    last_message_time,  \* 0 = None, else the instant of the last message
    silence_timer,      \* 0 = None, else the index of the latest Timer
    is_recording,
    session_lock,       \* "free" or "main" (timer callbacks run atomically)
    \* ---- threads of the recorder
    now,                \* time.time(), in seconds
    mpc,                \* where the main thread is
    current_time,       \* process_midi_message's local
    srFrom,             \* who called stop_recording: "none", "signal", "finally"
    timers,             \* Timer objects: [st, deadline]
    \* ---- MidiWebSocketBroadcaster fields
    running,            \* _running
    reconnect_base,
    reconnect_max,
    max_queue_size,
    queue,              \* _queue: message ids, oldest first
    connected,          \* _connected
    stop_event,         \* _stop_event.is_set()
    thread,             \* _thread: 0 = None, else the worker's index
    loop,               \* _loop: 0 = None, else the index of the worker owning it
    messages_sent,      \* _stats['messages_sent']
    messages_dropped,   \* _stats['messages_dropped']
    heartbeats_sent,    \* _stats['heartbeats_sent']
    heartbeats_received,\* _stats['heartbeats_received']
    \* ---- threads of the broadcaster
    workers,            \* worker threads: see NewWorker
    cpc,                \* the thread calling start/stop: "idle" or "joining"
    \* ---- history of the broadcaster (not program state)
    nMsgs,              \* calls of broadcast so far (the next message id - 1)
    accepted,           \* ids for which broadcast returned True (False for
                        \* the other ids up to nMsgs)
    wire,               \* ids sent on a connection, in order
    wdropped,           \* accepted ids the worker counted as dropped, in order
    stopped,            \* history of the last stop(): see StopBegin
    \* ---- history (not program state)
    nEvents,            \* messages read from the port so far
    curOrd,             \* ordinal of the open session object (0 = none)
    sess,               \* per session object: [sid, started, closed, saves, saved]
    evlog,              \* per message: [at, ord, delta]
    emitted,            \* messages handed to broadcaster.broadcast, in order
    faults,             \* file operations that have failed so far
    \* ---- midi_message_converter
    sem                 \* a call of create_session_end_message: see NoEndCall

recVars == <<silence_timeout, current_session, session_messages,
             last_message_time, silence_timer, is_recording, session_lock,
             now, mpc, current_time, srFrom, timers, nEvents, curOrd, sess,
             evlog, emitted, faults, sem>>

bcVars == <<reconnect_base, reconnect_max, max_queue_size, queue, connected,
            stop_event, thread, loop, messages_sent, messages_dropped,
            heartbeats_sent, heartbeats_received, workers, cpc, nMsgs, accepted, wire, wdropped, stopped>>

vars == <<recVars, running, bcVars>>

\* ---------------------------------------------------------------- helpers
Min(a, b) == IF a < b THEN a ELSE b
Max(a, b) == IF a > b THEN a ELSE b

TimerIds == 1..MaxEvents

\* Outcomes of the file operations of start_new_session: os.makedirs raises
\* (before any field is assigned), open(log, 'w') raises (after the fields are
\* assigned, before SessionStart is broadcast), or nothing raises.
StartOutcomes == {"ok", "mkdir_fail", "log_fail"}
\* Outcomes of _save_current_session: mid.save raises, os.remove of the log
\* placeholder raises (the file is saved), or nothing raises.
SaveOutcomes == {"ok", "save_fail", "rm_fail"}
\* A failing outcome is taken only while the run has faults left.
MayFail(failing) == failing => faults < MaxFaults
Count(failing) == IF failing THEN faults + 1 ELSE faults

\* A faulty variant of DeltaTicks: a negative difference is not clamped.
DeltaTicks_NoClamp(cur, last) ==
    IF last # 0
    THEN Min((cur - last) * TicksPerSecond, MaxDeltaTicks)
    ELSE 0

\* Lines 233-243: the delta stored with a message.  The clock counts whole
\* seconds, of which int() leaves the product unchanged.
DeltaTicks(cur, last) ==
    IF last # 0
    THEN Min(Max(cur - last, 0) * TicksPerSecond, MaxDeltaTicks)
    ELSE 0

\* broadcaster.broadcast(m) as the recorder uses it: the return value is
\* ignored; acc records whether the broadcaster was running.
Hand(log, m) == Append(log, [m EXCEPT !.acc = running])

Note(kind, sid, ord, ev) ==
    [kind |-> kind, sid |-> sid, ord |-> ord, ev |-> ev, acc |-> TRUE]

\* Timer.cancel(): sets the timer's finished event; a timer whose wait has
\* already ended is past its is_set() test and runs the callback anyway.
Cancel(ts, k) ==
    IF k # 0 /\ ts[k].st = "waiting"
    THEN [ts EXCEPT ![k] = [st |-> "dead", deadline |-> 0]]
    ELSE ts

\* _reset_silence_timer: cancel the latest Timer, start a new one.
ResetSilenceTimer(ts, k) ==
    [Cancel(ts, k) EXCEPT ![k + 1] =
        [st |-> "waiting", deadline |-> now + silence_timeout]]

\* _save_current_session, as the pair <<sess', emitted'>>.
SaveCurrentSession(outcome) ==
    IF session_messages = <<>> \/ current_session = 0 \/ outcome = "save_fail"
    THEN <<sess, emitted>>
    ELSE LET saved == [sess EXCEPT ![curOrd].saves = @ + 1,
                                   ![curOrd].saved =
                                       [i \in 1..Len(session_messages) |->
                                           session_messages[i].ev]]
         IN  IF outcome = "rm_fail"
             THEN <<saved, emitted>>
             ELSE <<saved,
                    Hand(emitted, Note("session_end", current_session, curOrd, 0))>>

SaveFails(outcome) ==
    session_messages # <<>> /\ current_session # 0 /\ outcome # "ok"

MarkClosed(s) ==
    IF curOrd # 0 THEN [s EXCEPT ![curOrd].closed = TRUE] ELSE s

\* ------------------------------------------------------------------- Init
\* AutoMIDIRecorder.__init__ followed by start_recording's entry.
RecFields(timeouts) ==
    /\ silence_timeout \in timeouts
    /\ current_session = 0
    /\ session_messages = <<>>
    /\ last_message_time = 0
    /\ silence_timer = 0
    /\ is_recording = TRUE
    /\ session_lock = "free"
    /\ now = 1
    /\ mpc = "idle"
    /\ current_time = 0
    /\ srFrom = "none"
    /\ timers = [k \in TimerIds |-> [st |-> "new", deadline |-> 0]]
    /\ nEvents = 0
    /\ curOrd = 0
    /\ sess = <<>>
    /\ evlog = <<>>
    /\ emitted = <<>>
    /\ faults = 0

\* ---------------------------------------------------------------- actions
\* The clock advances.
Tick ==
    /\ now < MaxTime
    /\ now' = now + 1
    /\ UNCHANGED <<bcVars, sem>>
    /\ UNCHANGED <<silence_timeout, current_session, session_messages,
                   last_message_time, silence_timer, is_recording,
                   session_lock, mpc, current_time, srFrom, timers, running,
                   nEvents, curOrd, sess, evlog, emitted, faults>>

\* time.time() is the wall clock: it can be stepped, forward or backward, to
\* any instant.
Instants == {1, MaxInstant - 1, MaxInstant}

ClockStep ==
    /\ \E t \in Instants \ {now} : now' = t
    /\ UNCHANGED <<bcVars, sem>>
    /\ UNCHANGED <<silence_timeout, current_session, session_messages,
                   last_message_time, silence_timer, is_recording,
                   session_lock, mpc, current_time, srFrom, timers, running,
                   nEvents, curOrd, sess, evlog, emitted, faults>>

\* start_recording's loop hands a message to process_midi_message, which
\* reads the clock (line 225) before it takes session_lock.
PMRead ==
    /\ mpc = "idle"
    /\ is_recording
    /\ nEvents < MaxEvents
    /\ nEvents' = nEvents + 1
    /\ current_time' = now
    /\ mpc' = "read"
    /\ UNCHANGED <<bcVars, sem>>
    /\ UNCHANGED <<silence_timeout, current_session, session_messages,
                   last_message_time, silence_timer, is_recording,
                   session_lock, now, srFrom, timers, running, curOrd, sess,
                   evlog, emitted, faults>>

\* process_midi_message, lines 227-247: take session_lock, open a session if
\* none is open (start_new_session), compute the delta, append the message.
PMEnter ==
    /\ mpc = "read"
    /\ session_lock = "free"
    /\ \E o \in StartOutcomes :
        LET opens  == current_session = 0 /\ o # "mkdir_fail"
            sid    == IF opens THEN now ELSE current_session
            ord    == IF opens THEN Len(sess) + 1 ELSE curOrd
            msgs   == IF opens THEN <<>> ELSE session_messages
            last   == IF opens THEN now ELSE last_message_time
            delta  == DeltaTicks(current_time, last)
        IN  /\ current_session' = sid
            /\ curOrd' = ord
            /\ sess' = IF opens
                       THEN Append(sess, [sid |-> sid, started |-> (o = "ok"),
                                          closed |-> FALSE, saves |-> 0,
                                          saved |-> <<>>])
                       ELSE sess
            /\ emitted' = IF opens /\ o = "ok"
                          THEN Hand(emitted, Note("session_start", sid, ord, 0))
                          ELSE emitted
            /\ session_messages' = Append(msgs, [ev |-> nEvents, time |-> delta])
            /\ evlog' = Append(evlog, [at |-> current_time, ord |-> ord,
                                       delta |-> delta])
            /\ MayFail(current_session = 0 /\ o # "ok")
            /\ faults' = Count(current_session = 0 /\ o # "ok")
    /\ last_message_time' = current_time
    /\ session_lock' = "main"
    /\ mpc' = "locked"
    /\ UNCHANGED <<bcVars, sem>>
    /\ UNCHANGED <<silence_timeout, silence_timer, is_recording, now,
                   current_time, srFrom, timers, running, nEvents>>

\* process_midi_message, lines 249-264: append to the log file, broadcast the
\* event, reset the timer, release the lock.  open(log, 'a') raising (always
\* when current_log_path is None) skips the broadcast and the timer reset.
PMFinish ==
    /\ mpc = "locked"
    /\ \E logOk \in BOOLEAN :
        /\ (current_session = 0) => ~logOk
        /\ IF logOk
           THEN /\ emitted' = Hand(emitted, Note("event", current_session,
                                                 curOrd, nEvents))
                /\ timers' = ResetSilenceTimer(timers, silence_timer)
                /\ silence_timer' = silence_timer + 1
                /\ UNCHANGED faults
           ELSE /\ MayFail(current_session # 0)
                /\ faults' = Count(current_session # 0)
                /\ UNCHANGED <<emitted, timers, silence_timer>>
    /\ session_lock' = "free"
    /\ mpc' = "idle"
    /\ UNCHANGED <<bcVars, sem>>
    /\ UNCHANGED <<silence_timeout, current_session, session_messages,
                   last_message_time, is_recording, now, current_time, srFrom,
                   running, nEvents, curOrd, sess, evlog>>

\* A Timer thread's wait ends without cancel() having been called: it is now
\* committed to calling _on_silence_timeout.
TimerExpire(k) ==
    /\ timers[k].st = "waiting"
    /\ now >= timers[k].deadline
    /\ timers' = [timers EXCEPT ![k].st = "running"]
    /\ UNCHANGED <<bcVars, sem>>
    /\ UNCHANGED <<silence_timeout, current_session, session_messages,
                   last_message_time, silence_timer, is_recording,
                   session_lock, now, mpc, current_time, srFrom, running,
                   nEvents, curOrd, sess, evlog, emitted, faults>>

\* _on_silence_timeout under session_lock.
OnSilenceTimeout(k) ==
    /\ timers[k].st = "running"
    /\ session_lock = "free"
    /\ timers' = [timers EXCEPT ![k] = [st |-> "dead", deadline |-> 0]]
    /\ IF current_session # 0
       THEN \E o \in SaveOutcomes :
               /\ sess' = MarkClosed(SaveCurrentSession(o)[1])
               /\ emitted' = SaveCurrentSession(o)[2]
               /\ MayFail(SaveFails(o))
               /\ faults' = Count(SaveFails(o))
               /\ current_session' = 0
               /\ curOrd' = 0
               /\ session_messages' = <<>>
       ELSE UNCHANGED <<sess, emitted, faults, current_session, curOrd,
                        session_messages>>
    /\ UNCHANGED <<bcVars, sem>>
    /\ UNCHANGED <<silence_timeout, last_message_time, silence_timer,
                   is_recording, session_lock, now, mpc, current_time, srFrom,
                   running, nEvents, evlog>>

\* stop_recording, lines 301-304: clear is_recording, cancel the timer.
EnterStopRecording(from) ==
    /\ is_recording' = FALSE
    /\ timers' = Cancel(timers, silence_timer)
    /\ srFrom' = from
    /\ mpc' = "sr_lock"

\* SIGTERM/SIGINT: _signal_handler runs on the main thread, on top of
\* whatever the main thread was doing, and calls stop_recording.
Signal ==
    /\ mpc \in {"idle", "read", "locked"}
    /\ srFrom = "none"
    /\ EnterStopRecording("signal")
    /\ UNCHANGED <<bcVars, sem>>
    /\ UNCHANGED <<silence_timeout, current_session, session_messages,
                   last_message_time, silence_timer, session_lock, now,
                   current_time, running, nEvents, curOrd, sess, evlog,
                   emitted, faults>>

\* The input port ends or raises: start_recording's finally calls
\* stop_recording.
PortClosed ==
    /\ mpc = "idle"
    /\ srFrom = "none"
    /\ EnterStopRecording("finally")
    /\ UNCHANGED <<bcVars, sem>>
    /\ UNCHANGED <<silence_timeout, current_session, session_messages,
                   last_message_time, silence_timer, session_lock, now,
                   current_time, running, nEvents, curOrd, sess, evlog,
                   emitted, faults>>

\* stop_recording, lines 306-308: under session_lock, save the open session
\* (the slot is not cleared).  Blocks while the lock is held, for ever when the
\* holder is the frame the signal handler interrupted.
StopRecordingSave ==
    /\ mpc = "sr_lock"
    /\ session_lock = "free"
    /\ IF current_session # 0
       THEN \E o \in SaveOutcomes :
               /\ sess' = MarkClosed(SaveCurrentSession(o)[1])
               /\ emitted' = SaveCurrentSession(o)[2]
               /\ MayFail(SaveFails(o))
               /\ faults' = Count(SaveFails(o))
       ELSE UNCHANGED <<sess, emitted, faults>>
    /\ mpc' = "sr_bc"
    /\ UNCHANGED <<bcVars, sem>>
    /\ UNCHANGED <<silence_timeout, current_session, session_messages,
                   last_message_time, silence_timer, is_recording,
                   session_lock, now, current_time, srFrom, timers, running,
                   nEvents, curOrd, evlog>>

\* stop_recording, lines 310-314: broadcaster.stop(flush=True).  Called by the
\* signal handler, sys.exit(0) follows: SystemExit unwinds the main thread
\* into start_recording's finally, which calls stop_recording again.
StopRecordingReturn ==
    /\ mpc = "sr_bc"
    /\ running' = FALSE
    /\ IF srFrom = "signal"
       THEN /\ srFrom' = "finally"
            /\ mpc' = "sr_lock"
            /\ timers' = Cancel(timers, silence_timer)
       ELSE /\ mpc' = "done"
            /\ UNCHANGED <<srFrom, timers>>
    /\ UNCHANGED <<bcVars, sem>>
    /\ UNCHANGED <<silence_timeout, current_session, session_messages,
                   last_message_time, silence_timer, is_recording,
                   session_lock, now, current_time, nEvents, curOrd, sess,
                   evlog, emitted, faults>>

RecNext ==
    \/ Tick
    \/ PMRead
    \/ PMEnter
    \/ PMFinish
    \/ \E k \in TimerIds : TimerExpire(k)
    \/ \E k \in TimerIds : OnSilenceTimeout(k)
    \/ Signal
    \/ PortClosed
    \/ StopRecordingSave
    \/ StopRecordingReturn

\* ======================================================================
\* midi_message_converter: create_session_end_message
\* ======================================================================
\* A call of create_session_end_message(session_id, duration, note_count,
\* file_path) and the files it looks up.
\*   pc         "idle" (no call), "called", "midi" and "mp3" (in
\*              delete_short_recording, before the lookup of the MIDI file
\*              and of the MP3 file), "done" (the message is returned)
\*   duration   the argument, in seconds
\*   file_path  the argument: "none" (None) or "path"
\*   midi, mp3  the file at file_path and the MP3 beside it: "absent"
\*              (os.path.exists is False), "present", "locked" (it exists
\*              and os.remove raises OSError), "removed"
\*   deleted_any  the local of delete_short_recording
\*   deleted, filePath  data.deleted and data.filePath of the message:
\*              filePath is "null" or "path"
NoEndCall ==
    [pc |-> "idle", duration |-> 0, file_path |-> "none", midi |-> "absent",
     mp3 |-> "absent", deleted_any |-> FALSE, deleted |-> FALSE,
     filePath |-> "null"]

FileStates == {"absent", "present", "locked"}

\* os.path.exists, then os.remove in its try: <<file', removed>>.
Remove(f) == IF f = "present" THEN <<"removed", TRUE>> ELSE <<f, FALSE>>

\* Lines 149-163: the message returned.
EndMessage(c, deleted) ==
    [c EXCEPT !.pc = "done", !.deleted = deleted,
              !.filePath = IF deleted THEN "null"
                           ELSE IF c.file_path = "none" THEN "null" ELSE "path"]

EndFrame ==
    /\ UNCHANGED <<silence_timeout, current_session, session_messages,
                   last_message_time, silence_timer, is_recording,
                   session_lock, now, mpc, current_time, srFrom, timers,
                   nEvents, curOrd, sess, evlog, emitted, faults>>
    /\ UNCHANGED <<running, bcVars>>

\* create_session_end_message, lines 143-147: a short session with a path
\* goes through delete_short_recording, any other is not deleted.
CreateSessionEnd ==
    /\ sem.pc = "called"
    /\ sem' = IF sem.duration < MIN_SESSION_DURATION_SECONDS
                 /\ sem.file_path # "none"
              THEN [sem EXCEPT !.pc = "midi"]
              ELSE EndMessage(sem, FALSE)
    /\ EndFrame

\* delete_short_recording, lines 177-186: the MIDI file.
DeleteMidi ==
    /\ sem.pc = "midi"
    /\ sem' = [sem EXCEPT !.pc = "mp3", !.midi = Remove(@)[1],
                          !.deleted_any = Remove(sem.midi)[2]]
    /\ EndFrame

\* delete_short_recording, lines 188-199: the MP3 file, and the return into
\* create_session_end_message.
DeleteMp3 ==
    /\ sem.pc = "mp3"
    /\ LET any == sem.deleted_any \/ Remove(sem.mp3)[2]
       IN  sem' = EndMessage([sem EXCEPT !.mp3 = Remove(@)[1],
                                         !.deleted_any = any], any)
    /\ EndFrame

EndNext ==
    \/ CreateSessionEnd
    \/ DeleteMidi
    \/ DeleteMp3

\* ======================================================================
\* MidiWebSocketBroadcaster
\* ======================================================================
WorkerIds == 1..MaxOverlap

\* A worker thread and its event loop.
\*   pc       "unborn"  not created yet
\*            "boot"    Thread.start() done, _run_event_loop not yet run
\*            "connecting"  awaiting websockets.connect
\*            "sending"     awaiting ws.send of `inflight` (drain duty)
\*            "dropping"    between the read and the write of
\*                          _stats['messages_dropped'] += 1 (line 294)
\*            "poll"        awaiting asyncio.sleep(DEFAULT_POLL_INTERVAL)
\*            "cleanup_ok", "cleanup_err"  in the finally of line 191, the
\*                          tasks cancelled and awaited, then ws closed
\*            "backoff"     in the interruptible wait of lines 225-229
\*            "dead"        the thread has ended
\*   delay    reconnect_delay        wait     wait_remaining
\*   batch    messages_sent local of _send_queued_messages
\*   rd       value of messages_dropped read at line 294
\*   ws       "none", "open", "broken" (closed by the peer or by an error),
\*            "closed" (released by the async with), "abandoned" (never
\*            released: the loop was stopped under it)
\*   hb       heartbeat task: "none", "sleep", "sending", "cancelled", "ended"
\*   rx       receive task: "none", "live", "cancelled", "ended"
\*   stopReq  loop.stop has been scheduled with call_soon_threadsafe
\*   streak, waited   history: failures since the last successful connect,
\*            seconds waited in the current or last backoff
\*   sig      history: stop() was called while this worker was in the
\*            backoff wait it is still in
NewWorker ==
    [pc |-> "unborn", delay |-> 0, wait |-> 0, inflight |-> 0, batch |-> 0,
     rd |-> 0, ws |-> "none", hb |-> "none", rx |-> "none",
     stopReq |-> FALSE, streak |-> 0, waited |-> 0, sig |-> FALSE]

\* A thread that has ended: its locals are gone.  What it leaves behind is the
\* connection, the tasks and the message it was sending.
Dead(r) ==
    [r EXCEPT !.pc = "dead", !.delay = 0, !.wait = 0, !.batch = 0, !.rd = 0,
              !.stopReq = FALSE, !.streak = 0, !.waited = 0, !.sig = FALSE]

\* A faulty variant of QueueFull: the capacity test is off by one.
QueueFull_OffByOne(q) == 0 < max_queue_size /\ max_queue_size < Len(q)

\* queue.Queue.full(): maxsize <= 0 means an unbounded queue.
QueueFull(q) == 0 < max_queue_size /\ max_queue_size <= Len(q)

\* Thread.is_alive()
IsAlive(w) == workers[w].pc \notin {"unborn", "dead"}

\* The is_running property.
IsRunning == running /\ thread # 0 /\ IsAlive(thread)

\* The loop test of lines 164, 188 and 242.
KeepGoing == running /\ ~stop_event

\* The worker's loop is running and its coroutines can be resumed.
ConnPcs == {"sending", "dropping", "poll"}
LoopPcs == ConnPcs \cup {"connecting", "cleanup_ok", "cleanup_err", "backoff"}

\* History of the last stop() since the last start(): called, returned, its
\* flush argument, the ids queued when it was called, and whether the worker
\* thread was still alive when it returned.
NoStop ==
    [called |-> FALSE, returned |-> FALSE, flush |-> FALSE, queued |-> {},
     alive |-> FALSE]

\* MidiWebSocketBroadcaster.__init__
BcFields(bases, maxes, sizes) ==
    /\ reconnect_base \in bases
    /\ reconnect_max \in maxes
    /\ max_queue_size \in sizes
    /\ queue = <<>>
    /\ connected = FALSE
    /\ stop_event = FALSE
    /\ thread = 0
    /\ loop = 0
    /\ messages_sent = 0
    /\ messages_dropped = 0
    /\ heartbeats_sent = 0
    /\ heartbeats_received = 0
    /\ workers = [w \in WorkerIds |-> NewWorker]
    /\ cpc = "idle"
    /\ nMsgs = 0
    /\ accepted = {}
    /\ wire = <<>>
    /\ wdropped = <<>>
    /\ stopped = NoStop

\* ---------------------------------------------------------------- callers
\* A faulty variant of Broadcast: _running is not tested.
Broadcast_IgnoreRunning ==
    /\ nMsgs < MaxMsgs
    /\ nMsgs' = nMsgs + 1
    /\ IF QueueFull(queue)
       THEN /\ messages_dropped' = messages_dropped + 1
            /\ UNCHANGED <<queue, accepted>>
       ELSE /\ queue' = Append(queue, nMsgs + 1)
            /\ accepted' = accepted \cup {nMsgs + 1}
            /\ UNCHANGED messages_dropped
    /\ UNCHANGED <<running, reconnect_base, reconnect_max, max_queue_size,
                   connected, stop_event, thread, loop, messages_sent,
                   heartbeats_sent, heartbeats_received, workers, cpc,
                   wire, wdropped, stopped>>
    /\ UNCHANGED recVars

\* A faulty variant of Broadcast: a message refused by a full queue is not counted.
Broadcast_SilentDrop ==
    /\ nMsgs < MaxMsgs
    /\ nMsgs' = nMsgs + 1
    /\ IF ~running \/ QueueFull(queue)
       THEN UNCHANGED <<queue, messages_dropped, accepted>>
       ELSE /\ queue' = Append(queue, nMsgs + 1)
            /\ accepted' = accepted \cup {nMsgs + 1}
            /\ UNCHANGED messages_dropped
    /\ UNCHANGED <<running, reconnect_base, reconnect_max, max_queue_size,
                   connected, stop_event, thread, loop, messages_sent,
                   heartbeats_sent, heartbeats_received, workers, cpc,
                   wire, wdropped, stopped>>
    /\ UNCHANGED recVars

\* broadcast(message)
Broadcast ==
    /\ nMsgs < MaxMsgs
    /\ nMsgs' = nMsgs + 1
    /\ IF ~running
       THEN UNCHANGED <<queue, messages_dropped, accepted>>
       ELSE IF QueueFull(queue)
       THEN /\ messages_dropped' = messages_dropped + 1
            /\ UNCHANGED <<queue, accepted>>
       ELSE /\ queue' = Append(queue, nMsgs + 1)
            /\ accepted' = accepted \cup {nMsgs + 1}
            /\ UNCHANGED messages_dropped
    /\ UNCHANGED <<running, reconnect_base, reconnect_max, max_queue_size,
                   connected, stop_event, thread, loop, messages_sent,
                   heartbeats_sent, heartbeats_received, workers, cpc,
                   wire, wdropped, stopped>>
    /\ UNCHANGED recVars

\* start() while is_running: returns False.
StartAgain ==
    /\ cpc = "idle"
    /\ IsRunning
    /\ UNCHANGED <<running, reconnect_base, reconnect_max, max_queue_size,
                   queue, connected, stop_event, thread, loop, messages_sent,
                   messages_dropped, heartbeats_sent, heartbeats_received,
                   workers, cpc, nMsgs, accepted, wire,
                   wdropped, stopped>>
    /\ UNCHANGED recVars

\* start(): creates and starts the worker thread.  The new thread takes the
\* first index that no thread still alive holds.
Start(w) ==
    /\ cpc = "idle"
    /\ ~IsRunning
    /\ ~IsAlive(w)
    /\ \A v \in WorkerIds : v < w => IsAlive(v)
    /\ running' = TRUE
    /\ stop_event' = FALSE
    /\ thread' = w
    /\ workers' = [workers EXCEPT ![w] = [NewWorker EXCEPT !.pc = "boot"]]
    /\ stopped' = NoStop
    /\ UNCHANGED <<reconnect_base, reconnect_max, max_queue_size, queue,
                   connected, loop, messages_sent, messages_dropped,
                   heartbeats_sent, heartbeats_received, cpc, nMsgs,
                   accepted, wire, wdropped>>
    /\ UNCHANGED recVars

\* stop(flush), lines 111-119: clear _running, set _stop_event, and stop the
\* loop if there is a running one.
StopBegin(flush) ==
    /\ cpc = "idle"
    /\ running
    /\ running' = FALSE
    /\ stop_event' = TRUE
    /\ workers' = [w \in WorkerIds |->
                       [workers[w] EXCEPT
                           !.stopReq = @ \/ (w = loop /\ workers[w].pc \in LoopPcs),
                           !.sig = (workers[w].pc = "backoff")]]
    /\ cpc' = "joining"
    /\ stopped' = [called |-> TRUE, returned |-> FALSE, flush |-> flush,
                   queued |-> {queue[i] : i \in 1..Len(queue)},
                   alive |-> FALSE]
    /\ UNCHANGED <<reconnect_base, reconnect_max, max_queue_size, queue,
                   connected, thread, loop, messages_sent, messages_dropped,
                   heartbeats_sent, heartbeats_received, nMsgs, accepted,
                   wire, wdropped>>
    /\ UNCHANGED recVars

\* stop(flush), lines 121-126: join the thread for at most
\* DEFAULT_FLUSH_TIMEOUT (flush) or 0.5 s, then forget it.  The join returns
\* when the thread has ended or when the time is up, whichever is first.
StopJoin ==
    /\ cpc = "joining"
    /\ thread' = 0
    /\ connected' = FALSE
    /\ cpc' = "idle"
    /\ stopped' = [stopped EXCEPT !.returned = TRUE,
                                  !.alive = (thread # 0 /\ IsAlive(thread))]
    /\ UNCHANGED <<running, reconnect_base, reconnect_max, max_queue_size,
                   queue, stop_event, loop, messages_sent, messages_dropped,
                   heartbeats_sent, heartbeats_received, workers, nMsgs, accepted, wire, wdropped>>
    /\ UNCHANGED recVars

\* ----------------------------------------------------------------- worker
\* What every worker action leaves alone.
WorkerFrame ==
    /\ UNCHANGED <<running, reconnect_base, reconnect_max, max_queue_size,
                   stop_event, thread, cpc, nMsgs, accepted, stopped>>
    /\ UNCHANGED recVars

\* _send_queued_messages from its loop test (line 281): take the next message
\* and start sending it, or return (queue empty, or max_batch sent) into the
\* sleep of line 190.  Gives <<worker record, queue>>.
Fetch(r, q) ==
    IF r.batch < MaxBatch /\ q # <<>>
    THEN <<[r EXCEPT !.pc = "sending", !.inflight = Head(q)], Tail(q)>>
    ELSE <<[r EXCEPT !.pc = "poll", !.batch = 0], q>>

\* The finally of lines 191-210 starts: both tasks are cancelled and awaited.
Cleanup(r, how) ==
    [r EXCEPT !.pc = how, !.batch = 0,
              !.hb = IF @ \in {"sleep", "sending"} THEN "cancelled" ELSE @,
              !.rx = IF @ = "live" THEN "cancelled" ELSE @]

\* The inner loop test of line 188, then the drain duty or the cleanup.
InnerLoop(r, q) ==
    IF KeepGoing THEN Fetch([r EXCEPT !.batch = 0], q)
    ELSE <<Cleanup(r, "cleanup_ok"), q>>

\* The except of lines 215-225 starts the backoff wait.
EnterBackoff(r) ==
    [r EXCEPT !.pc = "backoff", !.wait = r.delay, !.waited = 0,
              !.streak = Min(@ + 1, MaxStreak)]

\* A faulty variant of NextDelay: the doubled delay is not capped.
NextDelay_Uncapped(d) == d * 2

\* reconnect_delay after a completed wait (line 234).
NextDelay(d) == Min(d * 2, reconnect_max)

\* The outer loop test of line 164: connect, or leave _async_main (line 237)
\* and _run_event_loop (its finally).  Gives <<worker record, left>>.
OuterLoop(r) ==
    IF KeepGoing THEN <<[r EXCEPT !.pc = "connecting"], FALSE>>
    ELSE <<Dead(r), TRUE>>

\* _run_event_loop starts: a new loop, then _async_main up to its first await.
WorkerBoot(w) ==
    /\ workers[w].pc = "boot"
    /\ LET o == OuterLoop([workers[w] EXCEPT !.delay = reconnect_base])
       IN  /\ workers' = [workers EXCEPT ![w] = o[1]]
           /\ loop' = IF o[2] THEN 0 ELSE w
           /\ connected' = IF o[2] THEN FALSE ELSE connected
    /\ UNCHANGED <<queue, messages_sent, messages_dropped, heartbeats_sent,
                   heartbeats_received, wire, wdropped>>
    /\ WorkerFrame

\* websockets.connect succeeds: lines 177-189 up to the next await.
ConnectOk(w) ==
    /\ workers[w].pc = "connecting"
    /\ ~workers[w].stopReq
    /\ connected' = TRUE
    /\ LET r == [workers[w] EXCEPT !.delay = reconnect_base, !.ws = "open",
                                   !.hb = "sleep", !.rx = "live",
                                   !.streak = 0]
           n == InnerLoop(r, queue)
       IN  /\ workers' = [workers EXCEPT ![w] = n[1]]
           /\ queue' = n[2]
    /\ UNCHANGED <<loop, messages_sent, messages_dropped, heartbeats_sent,
                   heartbeats_received, wire, wdropped>>
    /\ WorkerFrame

\* websockets.connect raises: the except of line 215.
ConnectFail(w) ==
    /\ workers[w].pc = "connecting"
    /\ ~workers[w].stopReq
    /\ connected' = FALSE
    /\ workers' = [workers EXCEPT ![w] = EnterBackoff(workers[w])]
    /\ UNCHANGED <<queue, loop, messages_sent, messages_dropped,
                   heartbeats_sent, heartbeats_received, wire, wdropped>>
    /\ WorkerFrame

\* The connection fails or is closed by the peer.
NetFail(w) ==
    /\ workers[w].ws = "open"
    /\ workers[w].pc \in ConnPcs
    /\ workers' = [workers EXCEPT ![w].ws = "broken"]
    /\ UNCHANGED <<queue, connected, loop, messages_sent, messages_dropped,
                   heartbeats_sent, heartbeats_received, wire, wdropped>>
    /\ WorkerFrame

\* ws.send returns (lines 285-286), and the loop of line 281 goes on.
SendOk(w) ==
    /\ workers[w].pc = "sending"
    /\ ~workers[w].stopReq
    /\ workers[w].ws = "open"
    /\ messages_sent' = messages_sent + 1
    /\ wire' = Append(wire, workers[w].inflight)
    /\ LET n == Fetch([workers[w] EXCEPT !.inflight = 0, !.batch = @ + 1],
                      queue)
       IN  /\ workers' = [workers EXCEPT ![w] = n[1]]
           /\ queue' = n[2]
    /\ UNCHANGED <<connected, loop, messages_dropped, heartbeats_sent,
                   heartbeats_received, wdropped>>
    /\ WorkerFrame

\* ws.send raises (lines 289-297): the message is put back at the end of the
\* queue, or, the queue being full, counted as dropped; then the error is
\* raised again into the finally of line 191.
SendFail(w) ==
    /\ workers[w].pc = "sending"
    /\ ~workers[w].stopReq
    /\ workers[w].ws = "broken"
    /\ IF QueueFull(queue)
       THEN /\ workers' = [workers EXCEPT ![w].pc = "dropping",
                                          ![w].rd = messages_dropped]
            /\ UNCHANGED queue
       ELSE /\ queue' = Append(queue, workers[w].inflight)
            /\ workers' = [workers EXCEPT
                   ![w] = Cleanup([@ EXCEPT !.inflight = 0], "cleanup_err")]
    /\ UNCHANGED <<connected, loop, messages_sent, messages_dropped,
                   heartbeats_sent, heartbeats_received, wire, wdropped>>
    /\ WorkerFrame

\* The write of _stats['messages_dropped'] += 1 (line 294).
DropWrite(w) ==
    /\ workers[w].pc = "dropping"
    /\ messages_dropped' = workers[w].rd + 1
    /\ wdropped' = Append(wdropped, workers[w].inflight)
    /\ workers' = [workers EXCEPT
           ![w] = Cleanup([@ EXCEPT !.inflight = 0, !.rd = 0], "cleanup_err")]
    /\ UNCHANGED <<queue, connected, loop, messages_sent, heartbeats_sent,
                   heartbeats_received, wire>>
    /\ WorkerFrame

\* asyncio.sleep(DEFAULT_POLL_INTERVAL) returns: the loop test of line 188.
PollDone(w) ==
    /\ workers[w].pc = "poll"
    /\ ~workers[w].stopReq
    /\ LET n == InnerLoop(workers[w], queue)
       IN  /\ workers' = [workers EXCEPT ![w] = n[1]]
           /\ queue' = n[2]
    /\ UNCHANGED <<connected, loop, messages_sent, messages_dropped,
                   heartbeats_sent, heartbeats_received, wire, wdropped>>
    /\ WorkerFrame

\* The cancelled tasks have been awaited and the async with has closed the
\* connection: after an error the except of line 215, else the loop test of
\* line 164.
CleanupDone(w) ==
    /\ workers[w].pc \in {"cleanup_ok", "cleanup_err"}
    /\ ~workers[w].stopReq
    /\ LET r == [workers[w] EXCEPT !.ws = "closed", !.hb = "none",
                                   !.rx = "none"]
           o == OuterLoop(r)
       IN  IF workers[w].pc = "cleanup_err"
           THEN /\ workers' = [workers EXCEPT ![w] = EnterBackoff(r)]
                /\ connected' = FALSE
                /\ UNCHANGED loop
           ELSE /\ workers' = [workers EXCEPT ![w] = o[1]]
                /\ loop' = IF o[2] THEN 0 ELSE loop
                /\ connected' = IF o[2] THEN FALSE ELSE connected
    /\ UNCHANGED <<queue, messages_sent, messages_dropped, heartbeats_sent,
                   heartbeats_received, wire, wdropped>>
    /\ WorkerFrame

\* The interruptible wait of lines 225-235: one chunk of at most one second,
\* or its end (stop: leave; else double the delay and try again).
BackoffStep(w) ==
    /\ workers[w].pc = "backoff"
    /\ ~workers[w].stopReq
    /\ LET r == workers[w]
           chunk == Min(r.wait, 1)
           o == OuterLoop([r EXCEPT !.delay = NextDelay(@), !.sig = FALSE])
       IN  IF r.wait > 0 /\ ~stop_event
           THEN /\ workers' = [workers EXCEPT ![w].wait = @ - chunk,
                                              ![w].waited = @ + chunk]
                /\ UNCHANGED <<loop, connected>>
           ELSE IF stop_event
           THEN /\ workers' = [workers EXCEPT ![w] = Dead(@)]
                /\ loop' = 0
                /\ connected' = FALSE
           ELSE /\ workers' = [workers EXCEPT ![w] = o[1]]
                /\ loop' = IF o[2] THEN 0 ELSE loop
                /\ connected' = IF o[2] THEN FALSE ELSE connected
    /\ UNCHANGED <<queue, messages_sent, messages_dropped, heartbeats_sent,
                   heartbeats_received, wire, wdropped>>
    /\ WorkerFrame

\* The loop.stop scheduled by stop() runs: run_until_complete raises with
\* _async_main suspended where it was, and _run_event_loop's finally closes
\* the loop.  No coroutine is resumed again: the tasks are not cancelled and
\* the connection is not closed.
\* The stop is taken to come first among the loop's ready callbacks: once it
\* is requested (stopReq) no other step of this worker runs.
LoopStopped(w) ==
    /\ workers[w].stopReq
    /\ workers[w].pc \in LoopPcs
    /\ workers' = [workers EXCEPT
           ![w] = Dead([@ EXCEPT !.ws = IF @ \in {"open", "broken"}
                                       THEN "abandoned" ELSE @])]
    /\ loop' = 0
    /\ UNCHANGED <<queue, connected, messages_sent, messages_dropped,
                   heartbeats_sent, heartbeats_received, wire, wdropped>>
    /\ WorkerFrame

\* _heartbeat_loop: the loop test of line 242, then ws.send of a ping.
HeartbeatBegin(w) ==
    /\ workers[w].pc \in ConnPcs
    /\ ~workers[w].stopReq
    /\ workers[w].hb = "sleep"
    /\ heartbeats_sent < MaxHeartbeats \/ workers[w].ws # "open"
    /\ workers' = [workers EXCEPT
           ![w].hb = IF KeepGoing THEN "sending" ELSE "ended"]
    /\ UNCHANGED <<queue, connected, loop, messages_sent, messages_dropped,
                   heartbeats_sent, heartbeats_received, wire, wdropped>>
    /\ WorkerFrame

\* _heartbeat_loop: ws.send returns (count, sleep) or raises (break).
HeartbeatEnd(w) ==
    /\ workers[w].pc \in ConnPcs
    /\ ~workers[w].stopReq
    /\ workers[w].hb = "sending"
    /\ IF workers[w].ws = "open"
       THEN /\ heartbeats_sent' = heartbeats_sent + 1
            /\ workers' = [workers EXCEPT ![w].hb = "sleep"]
       ELSE /\ workers' = [workers EXCEPT ![w].hb = "ended"]
            /\ UNCHANGED heartbeats_sent
    /\ UNCHANGED <<queue, connected, loop, messages_sent, messages_dropped,
                   heartbeats_received, wire, wdropped>>
    /\ WorkerFrame

\* Frames the peer can send: a pong, another JSON object, text that is not
\* JSON, and JSON that is not an object (data.get raises AttributeError, which
\* only the outer except of line 273 catches).
Frames == {"pong", "object", "not_json", "not_object"}

\* _receive_loop gets a frame.
Receive(w, f) ==
    /\ workers[w].pc \in ConnPcs
    /\ ~workers[w].stopReq
    /\ workers[w].rx = "live"
    /\ workers[w].ws = "open"
    /\ f = "pong" => heartbeats_received < MaxHeartbeats
    /\ heartbeats_received' =
           IF f = "pong" THEN heartbeats_received + 1 ELSE heartbeats_received
    /\ workers' = IF f = "not_object"
                  THEN [workers EXCEPT ![w].rx = "ended"]
                  ELSE workers
    /\ UNCHANGED <<queue, connected, loop, messages_sent, messages_dropped,
                   heartbeats_sent, wire, wdropped>>
    /\ WorkerFrame

\* _receive_loop: the connection is closed or broken, the iteration ends.
ReceiveEnd(w) ==
    /\ workers[w].pc \in ConnPcs
    /\ ~workers[w].stopReq
    /\ workers[w].rx = "live"
    /\ workers[w].ws = "broken"
    /\ workers' = [workers EXCEPT ![w].rx = "ended"]
    /\ UNCHANGED <<queue, connected, loop, messages_sent, messages_dropped,
                   heartbeats_sent, heartbeats_received, wire, wdropped>>
    /\ WorkerFrame

WorkerNext(w) ==
    \/ WorkerBoot(w)
    \/ ConnectOk(w)
    \/ ConnectFail(w)
    \/ SendOk(w)
    \/ SendFail(w)
    \/ DropWrite(w)
    \/ PollDone(w)
    \/ CleanupDone(w)
    \/ BackoffStep(w)
    \/ LoopStopped(w)
    \/ HeartbeatBegin(w)
    \/ HeartbeatEnd(w)
    \/ \E f \in Frames : Receive(w, f)
    \/ ReceiveEnd(w)

BcNext ==
    \/ Broadcast
    \/ StartAgain
    \/ \E w \in 1..MaxWorkers : Start(w)
    \/ \E flush \in BOOLEAN : StopBegin(flush)
    \/ StopJoin
    \/ \E w \in WorkerIds : NetFail(w)
    \/ \E w \in WorkerIds : WorkerNext(w)

\* ======================================================================
\* The earlier MidiWebSocketBroadcaster, src/_extentions/piano/recorder
\* (the file beside the recorder)
\* ======================================================================
\* It has the same fields, start, stop and broadcast, no heartbeat and no
\* receive task (hb and rx stay "none"), a backoff of one sleep of at most
\* one second, and a _send_queued_messages that does not raise.  It is
\* modelled started and not stopped again.  Its worker uses the pcs "boot",
\* "connecting", "sending", "dropping", "poll" and "backoff".

\* start(), lines 88-103.
OldStart ==
    /\ cpc = "idle"
    /\ ~IsRunning
    /\ ~IsAlive(1)
    /\ running' = TRUE
    /\ stop_event' = FALSE
    /\ thread' = 1
    /\ workers' = [workers EXCEPT ![1] = [NewWorker EXCEPT !.pc = "boot"]]
    /\ stopped' = NoStop
    /\ UNCHANGED <<reconnect_base, reconnect_max, max_queue_size, queue,
                   connected, loop, messages_sent, messages_dropped,
                   heartbeats_sent, heartbeats_received, cpc, nMsgs,
                   accepted, wire, wdropped>>
    /\ UNCHANGED recVars

\* broadcast(message), lines 124-135.
OldBroadcast ==
    /\ nMsgs < MaxMsgs
    /\ nMsgs' = nMsgs + 1
    /\ IF ~running
       THEN UNCHANGED <<queue, messages_dropped, accepted>>
       ELSE IF QueueFull(queue)
       THEN /\ messages_dropped' = messages_dropped + 1
            /\ UNCHANGED <<queue, accepted>>
       ELSE /\ queue' = Append(queue, nMsgs + 1)
            /\ accepted' = accepted \cup {nMsgs + 1}
            /\ UNCHANGED messages_dropped
    /\ UNCHANGED <<running, reconnect_base, reconnect_max, max_queue_size,
                   connected, stop_event, thread, loop, messages_sent,
                   heartbeats_sent, heartbeats_received, workers, cpc,
                   wire, wdropped, stopped>>
    /\ UNCHANGED recVars

\* The outer loop test of line 160: connect, or leave _async_main (line 196)
\* and _run_event_loop.  Gives <<worker record, left>>.
OldOuterLoop(r) ==
    IF KeepGoing THEN <<[r EXCEPT !.pc = "connecting"], FALSE>>
    ELSE <<Dead(r), TRUE>>

\* _send_queued_messages from its loop test (line 203): take the next message
\* and start sending it, or return (queue empty, or max_batch sent) into the
\* sleep of line 176.  Gives <<worker record, queue>>.
OldFetch(r, q) ==
    IF r.batch < MaxBatch /\ q # <<>>
    THEN <<[r EXCEPT !.pc = "sending", !.inflight = Head(q)], Tail(q)>>
    ELSE <<[r EXCEPT !.pc = "poll", !.batch = 0], q>>

\* The inner loop test of line 174: the drain duty, or the end of the async
\* with (the connection is closed) and the outer loop test.  Gives <<worker
\* record, queue, left>>.
OldInnerLoop(r, q) ==
    IF KeepGoing
    THEN <<OldFetch([r EXCEPT !.batch = 0], q)[1],
           OldFetch([r EXCEPT !.batch = 0], q)[2], FALSE>>
    ELSE <<OldOuterLoop([r EXCEPT !.ws = "closed"])[1], q,
           OldOuterLoop([r EXCEPT !.ws = "closed"])[2]>>

\* _run_event_loop starts (lines 137-148), then _async_main up to its first
\* await (lines 150-162).
OldBoot(w) ==
    /\ workers[w].pc = "boot"
    /\ LET o == OldOuterLoop([workers[w] EXCEPT !.delay = reconnect_base])
       IN  /\ workers' = [workers EXCEPT ![w] = o[1]]
           /\ loop' = IF o[2] THEN 0 ELSE w
           /\ connected' = IF o[2] THEN FALSE ELSE connected
    /\ UNCHANGED <<queue, messages_sent, messages_dropped, heartbeats_sent,
                   heartbeats_received, wire, wdropped>>
    /\ WorkerFrame

\* websockets.connect succeeds: lines 168-175 up to the next await.
OldConnectOk(w) ==
    /\ workers[w].pc = "connecting"
    /\ LET r == [workers[w] EXCEPT !.delay = reconnect_base, !.ws = "open",
                                   !.streak = 0]
           n == OldInnerLoop(r, queue)
       IN  /\ workers' = [workers EXCEPT ![w] = n[1]]
           /\ queue' = n[2]
           /\ loop' = IF n[3] THEN 0 ELSE loop
           /\ connected' = IF n[3] THEN FALSE ELSE TRUE
    /\ UNCHANGED <<messages_sent, messages_dropped, heartbeats_sent,
                   heartbeats_received, wire, wdropped>>
    /\ WorkerFrame

\* websockets.connect raises: the except of lines 180-190, into the sleep of
\* min(reconnect_delay, 1).
OldConnectFail(w) ==
    /\ workers[w].pc = "connecting"
    /\ connected' = FALSE
    /\ workers' = [workers EXCEPT ![w].pc = "backoff",
                                  ![w].wait = Min(workers[w].delay, 1),
                                  ![w].waited = 0,
                                  ![w].streak = Min(@ + 1, MaxStreak)]
    /\ UNCHANGED <<queue, loop, messages_sent, messages_dropped,
                   heartbeats_sent, heartbeats_received, wire, wdropped>>
    /\ WorkerFrame

\* The sleep of line 190 returns (lines 191-194): stop, or double the delay
\* and go to the outer loop test.
OldBackoffDone(w) ==
    /\ workers[w].pc = "backoff"
    /\ LET r == workers[w]
           o == OldOuterLoop([r EXCEPT
                    !.delay = Min(@ * 2, reconnect_max), !.wait = 0,
                    !.waited = r.wait])
       IN  IF stop_event
           THEN /\ workers' = [workers EXCEPT ![w] = Dead(@)]
                /\ loop' = 0
                /\ connected' = FALSE
           ELSE /\ workers' = [workers EXCEPT ![w] = o[1]]
                /\ loop' = IF o[2] THEN 0 ELSE loop
                /\ connected' = IF o[2] THEN FALSE ELSE connected
    /\ UNCHANGED <<queue, messages_sent, messages_dropped, heartbeats_sent,
                   heartbeats_received, wire, wdropped>>
    /\ WorkerFrame

\* The connection fails or is closed by the peer.
OldNetFail(w) ==
    /\ workers[w].ws = "open"
    /\ workers[w].pc \in ConnPcs
    /\ workers' = [workers EXCEPT ![w].ws = "broken"]
    /\ UNCHANGED <<queue, connected, loop, messages_sent, messages_dropped,
                   heartbeats_sent, heartbeats_received, wire, wdropped>>
    /\ WorkerFrame

\* ws.send returns (lines 206-208), and the loop of line 203 goes on.
OldSendOk(w) ==
    /\ workers[w].pc = "sending"
    /\ workers[w].ws = "open"
    /\ messages_sent' = messages_sent + 1
    /\ wire' = Append(wire, workers[w].inflight)
    /\ LET n == OldFetch([workers[w] EXCEPT !.inflight = 0, !.batch = @ + 1],
                         queue)
       IN  /\ workers' = [workers EXCEPT ![w] = n[1]]
           /\ queue' = n[2]
    /\ UNCHANGED <<connected, loop, messages_dropped, heartbeats_sent,
                   heartbeats_received, wdropped>>
    /\ WorkerFrame

\* ws.send raises (lines 211-213): the error is logged and the read of
\* _stats['messages_dropped'] += 1 is done.
OldSendFail(w) ==
    /\ workers[w].pc = "sending"
    /\ workers[w].ws = "broken"
    /\ workers' = [workers EXCEPT ![w].pc = "dropping",
                                  ![w].rd = messages_dropped]
    /\ UNCHANGED <<queue, connected, loop, messages_sent, messages_dropped,
                   heartbeats_sent, heartbeats_received, wire, wdropped>>
    /\ WorkerFrame

\* The write of _stats['messages_dropped'] += 1 (line 213), then the break of
\* line 214: _send_queued_messages returns, without raising, into the sleep
\* of line 176.
OldDropWrite(w) ==
    /\ workers[w].pc = "dropping"
    /\ messages_dropped' = workers[w].rd + 1
    /\ wdropped' = Append(wdropped, workers[w].inflight)
    /\ workers' = [workers EXCEPT ![w].pc = "poll", ![w].inflight = 0,
                                  ![w].rd = 0, ![w].batch = 0]
    /\ UNCHANGED <<queue, connected, loop, messages_sent, heartbeats_sent,
                   heartbeats_received, wire>>
    /\ WorkerFrame

\* asyncio.sleep(DEFAULT_POLL_INTERVAL) returns: the loop test of line 174.
OldPollDone(w) ==
    /\ workers[w].pc = "poll"
    /\ LET n == OldInnerLoop(workers[w], queue)
       IN  /\ workers' = [workers EXCEPT ![w] = n[1]]
           /\ queue' = n[2]
           /\ loop' = IF n[3] THEN 0 ELSE loop
           /\ connected' = IF n[3] THEN FALSE ELSE connected
    /\ UNCHANGED <<messages_sent, messages_dropped, heartbeats_sent,
                   heartbeats_received, wire, wdropped>>
    /\ WorkerFrame

OldWorkerNext(w) ==
    \/ OldBoot(w)
    \/ OldConnectOk(w)
    \/ OldConnectFail(w)
    \/ OldBackoffDone(w)
    \/ OldSendOk(w)
    \/ OldSendFail(w)
    \/ OldDropWrite(w)
    \/ OldPollDone(w)

OldNext ==
    \/ OldStart
    \/ OldBroadcast
    \/ \E w \in WorkerIds : OldNetFail(w)
    \/ \E w \in WorkerIds : OldWorkerNext(w)

\* __init__, lines 39-66, with any capacity.
OldInit ==
    /\ RecFields({1})
    /\ sem = NoEndCall
    /\ running = FALSE
    /\ BcFields({1}, {MaxQueueSize}, 0..MaxQueueSize)

SpecOld == OldInit /\ [][OldNext]_vars

\* ======================================================================
\* Specifications
\* ======================================================================
\* The recorder with a started broadcaster, of which it uses only broadcast
\* and stop.
RecInit ==
    /\ RecFields(1..MaxSilence)
    /\ sem = NoEndCall
    /\ running = TRUE
    /\ BcFields({DEFAULT_RECONNECT_BASE}, {DEFAULT_RECONNECT_MAX}, {0})

SpecRec == RecInit /\ [][RecNext]_vars

\* Time passes, the Timer threads are scheduled (the end of a wait, then the
\* callback once session_lock is free), and the main thread, once inside
\* process_midi_message, runs it to its end.  The arrival of messages and of
\* signals is under no obligation.
FairSpecRec ==
    /\ SpecRec
    /\ WF_vars(Tick)
    /\ WF_vars(PMEnter)
    /\ WF_vars(PMFinish)
    /\ \A k \in TimerIds : WF_vars(TimerExpire(k))
    /\ \A k \in TimerIds : WF_vars(OnSilenceTimeout(k))

\* The recorder recording, under a wall clock that is stepped at any time.
DeltaNext ==
    \/ ClockStep
    \/ PMRead
    \/ PMEnter
    \/ PMFinish
    \/ \E k \in TimerIds : TimerExpire(k)
    \/ \E k \in TimerIds : OnSilenceTimeout(k)

DeltaInit ==
    /\ RecFields({MaxSilence})
    /\ sem = NoEndCall
    /\ running = TRUE
    /\ BcFields({DEFAULT_RECONNECT_BASE}, {DEFAULT_RECONNECT_MAX}, {0})

SpecDelta == DeltaInit /\ [][DeltaNext]_vars

\* create_session_end_message called with any duration, with or without a
\* path, the two files in any state.
EndInit ==
    /\ RecFields({1})
    /\ running = FALSE
    /\ BcFields({DEFAULT_RECONNECT_BASE}, {DEFAULT_RECONNECT_MAX}, {0})
    /\ \E d \in 0..MaxDuration, p \in {"none", "path"},
          m \in FileStates, q \in FileStates :
          sem = [NoEndCall EXCEPT !.pc = "called", !.duration = d,
                                  !.file_path = p, !.midi = m, !.mp3 = q]

SpecEnd == EndInit /\ [][EndNext]_vars

\* The broadcaster alone, its producers calling broadcast at any time.
BcInit ==
    /\ RecFields({1})
    /\ sem = NoEndCall
    /\ running = FALSE
    /\ BcFields({1}, {MaxQueueSize}, 0..MaxQueueSize)

SpecBc == BcInit /\ [][BcNext]_vars

\* The worker thread is scheduled: whatever its loop can run, it runs.  The
\* callers, the producers and the network are under no obligation.
FairSpecBc == SpecBc /\ \A w \in WorkerIds : WF_vars(WorkerNext(w))

\* The broadcaster constructed with its default reconnect intervals.
BackoffInit ==
    /\ RecFields({1})
    /\ sem = NoEndCall
    /\ running = FALSE
    /\ BcFields({DEFAULT_RECONNECT_BASE}, {DEFAULT_RECONNECT_MAX},
                {MaxQueueSize})

SpecBackoff == BackoffInit /\ [][BcNext]_vars

\* The life cycle of the worker threads: start() and stop() called at any
\* time, no producer, a peer that accepts or refuses connections.  A thread
\* that outlives the join of stop() can meet the thread of the next start().
LifeWorkerNext(w) ==
    \/ WorkerBoot(w)
    \/ ConnectOk(w)
    \/ ConnectFail(w)
    \/ PollDone(w)
    \/ CleanupDone(w)
    \/ BackoffStep(w)
    \/ LoopStopped(w)

LifeNext ==
    \/ StartAgain
    \/ \E w \in WorkerIds : Start(w)
    \/ \E flush \in BOOLEAN : StopBegin(flush)
    \/ StopJoin
    \/ \E w \in WorkerIds : LifeWorkerNext(w)

LifeInit ==
    /\ RecFields({1})
    /\ sem = NoEndCall
    /\ running = FALSE
    /\ BcFields({1}, {MaxQueueSize}, {MaxQueueSize})

SpecLife == LifeInit /\ [][LifeNext]_vars

\* ======================================================================
\* Claims about the recorder, checked under SpecRec
\* ======================================================================
EndsHanded(o) ==
    Cardinality({i \in 1..Len(emitted) :
                    emitted[i].kind = "session_end" /\ emitted[i].ord = o})
EndsAccepted(o) ==
    Cardinality({i \in 1..Len(emitted) :
                    /\ emitted[i].kind = "session_end"
                    /\ emitted[i].ord = o
                    /\ emitted[i].acc})
EventsOf(o) == {sess[o].saved[i] : i \in 1..Len(sess[o].saved)}

\* C1: while no file operation fails, consecutive messages whose arrival
\* instants are less than silence_timeout apart are appended to the same
\* session, every message is appended to a session, in arrival order, with a
\* delta >= 0.
C1_GapBelowTimeoutOneSession ==
    faults = 0 =>
        /\ \A i \in 1..Len(evlog) : evlog[i].ord # 0 /\ evlog[i].delta >= 0
        /\ \A i \in 1..Len(session_messages) - 1 :
               session_messages[i].ev < session_messages[i + 1].ev
        /\ \A i \in 1..Len(evlog) - 1 :
               evlog[i + 1].at - evlog[i].at < silence_timeout
                   => evlog[i + 1].ord = evlog[i].ord

\* C2: while no file operation fails, two consecutive messages whose arrival
\* instants are at least silence_timeout apart are in different sessions, the
\* earlier one's session having been closed; and no message is saved in two
\* sessions.
C2_GapAtLeastTimeoutSplits ==
    faults = 0 =>
        /\ \A i \in 1..Len(evlog) - 1 :
               evlog[i + 1].at - evlog[i].at >= silence_timeout
                   => /\ evlog[i + 1].ord # evlog[i].ord
                      /\ sess[evlog[i].ord].closed
        /\ \A o1, o2 \in 1..Len(sess) :
               o1 # o2 => EventsOf(o1) \cap EventsOf(o2) = {}

\* C3: a session whose SessionStart was emitted never has two SessionEnd
\* notifications accepted by the broadcaster, and once it has been closed (by
\* the silence timeout or by stop_recording) a SessionEnd has been handed to
\* the broadcaster for it.
C3_ExactlyOneSessionEnd ==
    \A o \in 1..Len(sess) :
        sess[o].started =>
            /\ EndsAccepted(o) <= 1
            /\ sess[o].closed => EndsHanded(o) >= 1

\* ======================================================================
\* Claims about the broadcaster
\* ======================================================================
\* A step of broadcast: the only action that changes nMsgs.
BroadcastStep == nMsgs' = nMsgs + 1
Refused == (nMsgs + 1) \notin accepted'

SentCount(m) == Cardinality({i \in 1..Len(wire) : wire[i] = m})
DropCount(m) == Cardinality({i \in 1..Len(wdropped) : wdropped[i] = m})

\* C4 as claimed: every call of broadcast made while the queue holds
\* max_queue_size messages returns False, adds exactly one to
\* messages_dropped and leaves the queue as it was; and broadcast can always
\* complete, whatever the worker and the connection are doing.
C4_FullQueueAnyState ==
    /\ [](nMsgs < MaxMsgs => ENABLED Broadcast)
    /\ [][BroadcastStep /\ Len(queue) = max_queue_size
            => /\ Refused
               /\ messages_dropped' = messages_dropped + 1
               /\ queue' = queue]_vars

\* C4 as amended: the same for every call made while the broadcaster is
\* running and the queue is bounded (max_queue_size >= 1) and full.
C4_FullQueueWhileRunning ==
    /\ [](nMsgs < MaxMsgs => ENABLED Broadcast)
    /\ [][BroadcastStep /\ running /\ max_queue_size >= 1
                        /\ Len(queue) = max_queue_size
            => /\ Refused
               /\ messages_dropped' = messages_dropped + 1
               /\ queue' = queue]_vars

\* C4 witness: the last call of broadcast was refused by a full queue of a
\* running broadcaster whose worker is in the middle of a send.
C4_Witness ==
    /\ running
    /\ max_queue_size >= 1
    /\ Len(queue) = max_queue_size
    /\ nMsgs \notin accepted
    /\ messages_dropped >= 1
    /\ \E w \in WorkerIds : workers[w].pc = "sending"

\* C5 as claimed: the queue never holds more than max_queue_size messages.
C5_QueueWithinAnyCapacity == Len(queue) <= max_queue_size

\* C5 as amended: for every max_queue_size >= 1 the queue never holds more
\* than max_queue_size messages.
C5_QueueWithinPositiveCapacity ==
    max_queue_size >= 1 => Len(queue) <= max_queue_size

\* C5 witness: the queue is full after the worker has put a message back and
\* a producer has been refused.
C5_Witness ==
    /\ max_queue_size >= 1
    /\ Len(queue) = max_queue_size
    /\ messages_dropped >= 1
    /\ \E i \in 1..Len(queue) - 1 : queue[i] > queue[i + 1]

\* The queue has been drained: it is empty and no live worker is in the
\* middle of sending or dropping a message.
Drained ==
    /\ queue = <<>>
    /\ \A w \in WorkerIds :
           workers[w].pc \in {"sending", "dropping"} => workers[w].inflight = 0
\* stop() has returned, the worker thread having ended before the join did.
StoppedClean == stopped.returned /\ ~stopped.alive

\* C6: an accepted message is never counted twice (sent or dropped), and once
\* the queue has been drained or stop() has returned it has been counted
\* exactly once.
C6_AcceptedCountedOnce ==
    \A m \in accepted :
        /\ SentCount(m) + DropCount(m) <= 1
        /\ (Drained \/ StoppedClean) => SentCount(m) + DropCount(m) = 1

\* C7: once the connection of a connected worker is broken (an error or a
\* closure), the worker leaves the connected state (for the teardown and the
\* backoff wait, or because it is stopped).
C7_ErrorLeadsToTeardown ==
    \A w \in WorkerIds :
        (workers[w].ws = "broken" /\ workers[w].pc \in ConnPcs)
            ~> (workers[w].pc \notin ConnPcs)

\* The waits of C8, for reconnect_base = 5 and reconnect_max = 60.
C8_Waits == <<5, 10, 20, 40, 60, 60>>
C8_Wait(k) == C8_Waits[Min(k, Len(C8_Waits))]

\* C8: with the default intervals, the wait that follows the k-th failure
\* in a row since the last successful connect (or since the start) lasts
\* 5, 10, 20, 40, 60, 60, ... seconds: it starts at that length, and a
\* connection attempt that follows a wait follows a wait of that full
\* length.
C8_BackoffSequence ==
    \A w \in WorkerIds :
        LET r == workers[w]
        IN  /\ r.pc = "backoff" =>
                /\ r.streak >= 1
                /\ r.delay = C8_Wait(r.streak)
                /\ r.wait + r.waited = C8_Wait(r.streak)
            /\ (r.pc = "connecting" /\ r.streak >= 1) =>
                r.waited = C8_Wait(r.streak)

\* C8 witness: after a successful connect (a message has been sent) the
\* sixth failure in a row is followed by the second wait of 60 seconds.
C8_Witness ==
    \E w \in WorkerIds :
        /\ workers[w].pc = "backoff"
        /\ workers[w].streak = Len(C8_Waits)
        /\ workers[w].wait = DEFAULT_RECONNECT_MAX
        /\ messages_sent >= 1

\* C9: when stop(flush=True) has returned (the worker thread having ended),
\* every message that was queued when it was called has been sent or counted
\* as dropped.
C9_FlushSendsOrDrops ==
    (StoppedClean /\ stopped.flush) =>
        \A m \in stopped.queued : SentCount(m) + DropCount(m) >= 1

\* C10: when stop() has returned (the worker thread having ended), no
\* connection is left unreleased, is_connected is False, and nothing is sent
\* until the next start().
C10_StoppedMeansReleased ==
    /\ [](StoppedClean =>
            /\ ~connected
            /\ \A w \in WorkerIds :
                   workers[w].ws \in {"none", "closed"})
    /\ [][stopped.returned /\ stopped'.returned => wire' = wire]_vars

\* ======================================================================
\* Further claims about the recorder, checked under SpecRec
\* ======================================================================
\* C11: when stop_recording has returned (for the last time) no session is
\* Open, and no session object has been saved more than once, be it by a late
\* timer callback or by a second stop_recording.
C11_StopClearsOpenSlot ==
    /\ mpc = "done" => current_session = 0
    /\ \A o \in 1..Len(sess) : sess[o].saves <= 1

\* C18: once a file operation has failed, the session still goes on to
\* Closed: while the main thread waits for the next message with a session
\* Open, an inactivity timer is pending for it; and when stop_recording has
\* returned the Open slot is cleared.  (No handler of the recorder lets an
\* exception out: every failing outcome is taken inside the handler's step.)
C18_FailureStillCloses ==
    faults > 0 =>
        /\ (mpc = "idle" /\ current_session # 0) =>
               \E k \in TimerIds : timers[k].st \in {"waiting", "running"}
        /\ mpc = "done" => current_session = 0

\* ======================================================================
\* Further claims about the broadcaster
\* ======================================================================
\* The counters of the broadcaster.
Counters == <<messages_sent, messages_dropped, heartbeats_sent,
              heartbeats_received>>

\* C14 as claimed: a call of broadcast returns False exactly when the queue
\* holds max_queue_size messages or stop() has been called (and start() not
\* since); otherwise the message is appended to the queue; a call after
\* stop() changes neither the queue nor a counter.
C14_FalseOnlyFullOrStopped ==
    [][BroadcastStep =>
        /\ Refused <=> (Len(queue) = max_queue_size \/ stopped.called)
        /\ ~Refused => queue' = Append(queue, nMsgs + 1)
        /\ stopped.called => queue' = queue /\ Counters' = Counters]_vars

\* C14 as amended: a call of broadcast returns False exactly when the
\* broadcaster is not running (before the first start() or after stop()) or
\* its queue, of a capacity max_queue_size >= 1, is full; otherwise the
\* message is appended to the queue; a call while not running changes
\* neither the queue nor a counter.
C14_FalseOnlyFullOrNotRunning ==
    [][BroadcastStep =>
        /\ Refused <=> \/ ~running
                       \/ max_queue_size >= 1 /\ Len(queue) = max_queue_size
        /\ ~Refused => queue' = Append(queue, nMsgs + 1)
        /\ ~running => queue' = queue /\ Counters' = Counters]_vars

\* C14 witness: after a message was accepted, stop() has returned and the
\* last call of broadcast was refused although the queue had room, without a
\* count.
C14_Witness ==
    /\ stopped.returned
    /\ ~running
    /\ accepted # {}
    /\ nMsgs \notin accepted
    /\ messages_dropped = 0
    /\ max_queue_size >= 1
    /\ Len(queue) < max_queue_size

\* C15: a connection handle that has been released (closed) or abandoned has
\* no live task: its heartbeat and receive tasks were cancelled and awaited,
\* or had ended, before.
C15_NoLiveTaskAtRelease ==
    \A w \in WorkerIds :
        workers[w].ws \in {"closed", "abandoned"} =>
            /\ workers[w].hb \notin {"sleep", "sending"}
            /\ workers[w].rx # "live"

\* C16: on an open connection a heartbeat send and a drain send are never
\* both in progress.
C16_OneWriteAtATime ==
    \A w \in WorkerIds :
        workers[w].ws = "open" =>
            ~(workers[w].pc = "sending" /\ workers[w].hb = "sending")

\* start() launches worker w in this step.
Launch(w) == workers[w].pc # "boot" /\ workers'[w].pc = "boot"

\* C13: start() launches a worker only when no worker is running: while a
\* worker thread is alive no second one is started.
C13_NoSecondWorker ==
    [][\A w \in WorkerIds : Launch(w) => \A v \in WorkerIds : ~IsAlive(v)]_vars

\* C17: a worker that is in its backoff wait when stop is signalled makes no
\* further connection attempt: it stays in the wait, for at most one more
\* chunk, or ends.
C17_StopEndsBackoff ==
    [][\A w \in WorkerIds :
          workers[w].sig =>
              /\ workers'[w].pc \in {"backoff", "dead"}
              /\ workers'[w].pc = "backoff" =>
                     workers'[w].wait = workers[w].wait]_vars

\* ======================================================================
\* Claims about the stored deltas, checked under SpecDelta
\* ======================================================================
\* Event i is the one that opened its session.
Opens(i) ==
    /\ evlog[i].ord # 0
    /\ i = 1 \/ evlog[i - 1].ord # evlog[i].ord
\* lastEventInstant when event i was stored, from the history: the instant
\* its session was opened, else the instant of the event before it (0: none).
LastInstant(i) ==
    IF Opens(i) THEN sess[evlog[i].ord].sid
    ELSE IF i > 1 THEN evlog[i - 1].at
    ELSE 0
Ticks(gap) == Min(Max(gap, 0) * 960, 65535)

\* C19: the delta stored with every event is
\* min(floor(max(0, now - lastEventInstant) * 960), 65535), hence in 0..65535.
C19_DeltaClampedAndCapped ==
    \A i \in 1..Len(evlog) :
        /\ evlog[i].delta \in 0..65535
        /\ LastInstant(i) # 0 =>
               evlog[i].delta = Ticks(evlog[i].at - LastInstant(i))

\* C19 witness: in one session, an event after a gap long enough to be
\* capped, then an event read at an earlier instant than the one before it.
C19_Witness ==
    \E i \in 2..Len(evlog) - 1 :
        /\ ~Opens(i) /\ ~Opens(i + 1)
        /\ evlog[i].ord # 0
        /\ (evlog[i].at - evlog[i - 1].at) * 960 > 65535
        /\ evlog[i].delta = 65535
        /\ evlog[i + 1].at < evlog[i].at
        /\ evlog[i + 1].delta = 0

\* C20: the event that opens a session is stored with delta 0, and every
\* later event of the session with the time since the event before it.
C20_FirstDeltaZero ==
    \A i \in 1..Len(evlog) :
        evlog[i].ord # 0 =>
            IF Opens(i) THEN evlog[i].delta = 0
            ELSE evlog[i].delta = Ticks(evlog[i].at - evlog[i - 1].at)

\* ======================================================================
\* Claims about the SessionEnd message, checked under SpecEnd
\* ======================================================================
\* C12: the SessionEnd message made for a saved session (a path is given)
\* has deleted = true and filePath = null if and only if the duration is
\* below 30 seconds, and then the artifact is no longer there; from 30
\* seconds on it has deleted = false and a filePath.
C12_DeletedIffShort ==
    (sem.pc = "done" /\ sem.file_path = "path") =>
        /\ (sem.deleted /\ sem.filePath = "null") <=> sem.duration < 30
        /\ sem.duration < 30 => sem.midi \in {"absent", "removed"}
        /\ sem.duration >= 30 => ~sem.deleted /\ sem.filePath = "path"

\* ======================================================================
\* Claims about the inactivity timer, checked under SpecRec
\* ======================================================================
\* The timers whose callback can still run: waiting for their deadline, or
\* past the wait and on their way into _on_silence_timeout.
CanFire ==
    {k \in TimerIds : timers[k].st \in {"waiting", "running"}}

\* C21: at no time can more than one timer callback still fire, and the
\* process_midi_message call that appended an event returns with exactly one
\* timer pending, armed with the full silence_timeout.
C21_OneTimerCanFire ==
    /\ [](Cardinality(CanFire) <= 1)
    /\ [][(mpc = "locked" /\ mpc' = "idle" /\ current_session # 0) =>
            /\ Cardinality({k \in TimerIds : timers'[k].st \in
                                              {"waiting", "running"}}) = 1
            /\ \E k \in TimerIds :
                  /\ timers'[k].st = "waiting"
                  /\ timers'[k].deadline = now + silence_timeout]_vars

\* ======================================================================
\* Claims about the order of the notifications, checked under SpecRec
\* ======================================================================
\* C23: in the order in which the recorder hands messages to broadcast, an
\* event notification comes after the SessionStart with its session id and
\* before any SessionEnd with that id, carries the id of the session its
\* event was appended to, and the notifications of one session are not
\* interleaved with those of another.
C23_NotificationsInSessionOrder ==
    /\ \A j \in 1..Len(emitted) :
          emitted[j].kind = "event" =>
              /\ \E i \in 1..(j - 1) :
                    /\ emitted[i].kind = "session_start"
                    /\ emitted[i].sid = emitted[j].sid
              /\ \A i \in 1..(j - 1) :
                    emitted[i].kind = "session_end" =>
                        emitted[i].sid # emitted[j].sid
              /\ emitted[j].ev \in 1..Len(evlog)
              /\ evlog[emitted[j].ev].ord # 0
              /\ sess[evlog[emitted[j].ev].ord].sid = emitted[j].sid
    /\ \A i, j, k \in 1..Len(emitted) :
          (i < j /\ j < k /\ emitted[i].sid = emitted[k].sid) =>
              emitted[j].sid = emitted[i].sid

\* ======================================================================
\* Claims about stop_recording, checked under SpecRec
\* ======================================================================
\* C27: stop_recording always returns: whenever it waits for session_lock
\* (called from start_recording's finally or from the signal handler), it
\* can take the lock, the timer callbacks holding it only for one step and
\* no other holder being left.
C27_StopRecordingReturns ==
    mpc = "sr_lock" => ENABLED StopRecordingSave

\* ======================================================================
\* Claims about the session ids, checked under SpecDelta
\* ======================================================================
\* C30: two different sessions never have the same session id (and so never
\* the same artifact path, which is made of the id alone).
C30_SessionIdsDiffer ==
    \A a, b \in 1..Len(sess) : a # b => sess[a].sid # sess[b].sid

\* ======================================================================
\* Claims about the receive duty, checked under SpecBc
\* ======================================================================
\* The connection of worker w stays open and in use over the step.
StaysConnected(w) ==
    /\ workers[w].ws = "open" /\ workers'[w].ws = "open"
    /\ workers[w].pc \in ConnPcs /\ workers'[w].pc \in ConnPcs

\* C22: in the receive duty, a pong adds exactly one to heartbeats_received
\* and changes no other counter, and whatever frame arrives on a connection
\* that stays open, the receive duty goes on to the following frames.
C22_ReceiveSurvivesAnyFrame ==
    [][/\ heartbeats_received' # heartbeats_received =>
              /\ heartbeats_received' = heartbeats_received + 1
              /\ <<messages_sent, messages_dropped, heartbeats_sent>>' =
                     <<messages_sent, messages_dropped, heartbeats_sent>>
              /\ connected' = connected
       /\ \A w \in WorkerIds :
              (workers[w].rx = "live" /\ StaysConnected(w)) =>
                  workers'[w].rx = "live"]_vars

\* ======================================================================
\* Claims about the counters, checked under SpecBc
\* ======================================================================
\* C24: no increment of messages_dropped is lost: every drop event, a
\* broadcast refused by a full queue or a failed message the worker could
\* not put back, adds exactly one to the counter, which changes in no other
\* step, so that it equals the number of drop events.
C24_EveryDropCounted ==
    [][/\ Len(wdropped') = Len(wdropped) + 1 =>
              messages_dropped' = messages_dropped + 1
       /\ (BroadcastStep /\ running /\ QueueFull(queue)) =>
              messages_dropped' = messages_dropped + 1
       /\ messages_dropped' # messages_dropped =>
              \/ Len(wdropped') = Len(wdropped) + 1
              \/ BroadcastStep /\ running /\ QueueFull(queue)]_vars

\* ======================================================================
\* Claims about the order on the wire, checked under SpecBc
\* ======================================================================
\* C26: messages go out on the wire in the order in which broadcast accepted
\* them (the ids count the calls of broadcast): of two accepted messages
\* that are both sent, the one accepted first is sent first.
C26_SentInAcceptedOrder ==
    \A i, j \in 1..Len(wire) :
        (i < j /\ wire[i] # wire[j]) => wire[i] < wire[j]

\* ======================================================================
\* Claims about the worker's lifecycle, checked under SpecLife
\* ======================================================================
\* C28: over any sequence of start() and stop() calls, at most one worker
\* is alive with its loop running, that is, able to drain the queue or to
\* own a connection.
C28_AtMostOneWorkerAtWork ==
    Cardinality({w \in WorkerIds : workers[w].pc \in LoopPcs}) <= 1

\* ======================================================================
\* Claims about the closing of sessions, checked under FairSpecRec
\* ======================================================================
\* C29: a session that is Open while the main thread waits for the next
\* message is eventually Closed by the inactivity timer, unless a further
\* message arrives or stop_recording is called first.  (The clock of the
\* model stops at MaxTime: the session is looked at while a timer armed for
\* it can still expire.)
C29_OpenLeadsToClosed ==
    (current_session # 0 /\ mpc = "idle" /\ now + silence_timeout <= MaxTime)
        ~> (current_session = 0 \/ mpc # "idle" \/ srFrom # "none")

\* ======================================================================
\* Claims about the earlier broadcaster, checked under SpecOld
\* ======================================================================
\* C25: in the broadcaster of src/_extentions, a send failure during the
\* drain tears the connection down: when the worker leaves the handling of
\* the failed send, is_connected is False and the worker is no longer
\* draining or polling on that connection (it is in the backoff wait).
C25_SendFailureTearsDown ==
    [][\A w \in WorkerIds :
          (workers[w].pc = "dropping" /\ workers'[w].pc # "dropping") =>
              /\ ~connected'
              /\ workers'[w].pc = "backoff"
              /\ workers'[w].ws \notin {"open", "broken"}]_vars

====
